---- MODULE Spec2Model ----
(***************************************************************************)
(* State-machine model of telegram_downloader (src/main.py): the progress  *)
(* ledger state.json, the resume cursor get_last_id, the path resolver     *)
(* get_file_path, the batch downloader download_messages and the run loop  *)
(* run.  One behaviour is a sequence of program runs against one chat      *)
(* whose history does not change.                                          *)
(***************************************************************************)
EXTENDS Integers, Sequences, FiniteSets, TLC

\* ------------------------------------------------------------------ bounds
\* longest history whose messages are of arbitrary kinds
MaxMsg == 3
\* number of program runs in one behaviour
MaxRuns == 2
\* environment faults (failed downloads, upstream errors) in one behaviour
MaxFaults == 2
\* environment faults in a behaviour over a batch-sized history
MaxBatchFaults == 1
\* largest number of a file that exists before get_file_path is called
MaxNumber == 3

\* ------------------------------------------------------- program constants
\* the flush threshold of the queue, `if len(download_queue) >= 20`
BatchSize == 20
\* the -u/--user-id argument: the one chat the runs are about
user_id == "chat"
\* Python's None
None == <<>>

\* ------------------------------------------------------------ the messages
\* What the client library delivers for one message: media (message.media is
\* not None), file (message.file is not None), name (message.file.name with
\* its extension cut off, None when the attachment has none), mime (the
\* words of message.file.mime_type), ext (message.file.ext).
Text ==
  [media |-> FALSE, file |-> FALSE, name |-> None, mime |-> <<>>, ext |-> ""]
Photo ==
  [media |-> TRUE, file |-> TRUE, name |-> None,
   mime |-> <<"image", "jpeg">>, ext |-> ".jpg"]
DocA ==
  [media |-> TRUE, file |-> TRUE, name |-> <<"a">>,
   mime |-> <<"application", "pdf">>, ext |-> ".pdf"]
Kinds == {Text, Photo, DocA}

\* histories of arbitrary kinds, and batch-sized histories of photos
SmallHistories == UNION {[1..n -> Kinds] : n \in 0..MaxMsg}
BatchLengths == {BatchSize + 1}
BatchHistories == {[i \in 1..n |-> Photo] : n \in BatchLengths}

\* ---------------------------------------------------- str(int), int(str)
RECURSIVE Str(_)
\* str(message.id): the decimal digits of n, most significant first
Str(n) == IF n < 10 THEN <<n>> ELSE Str(n \div 10) \o <<n % 10>>

RECURSIVE ToInt(_)
\* int(key): the number a digit string denotes; int(0) of the default 0 is 0
ToInt(s) == IF Len(s) = 0 THEN 0
            ELSE 10 * ToInt(SubSeq(s, 1, Len(s) - 1)) + s[Len(s)]

\* ------------------------------------------------------------- the ledger
\* A chat's records are a Python dict: a sequence of <<key, value>> entries in
\* insertion order.  A value is a record with has_media, and for a media
\* message downloaded, and while queued in a run the live handle "message".
Keys(cs) == {cs[i].key : i \in 1..Len(cs)}
IndexOf(cs, k) == CHOOSE i \in 1..Len(cs) : cs[i].key = k
Get(cs, k) == cs[IndexOf(cs, k)].value
\* chat_state[k] = v: a new key is appended, an old one keeps its place
Put(cs, k, v) ==
  IF k \in Keys(cs)
    THEN [cs EXCEPT ![IndexOf(cs, k)] = [key |-> k, value |-> v]]
    ELSE Append(cs, [key |-> k, value |-> v])

HasHandle(v) == "message" \in DOMAIN v
\* del state_item["message"]
DelMessage(v) ==
  IF ~HasHandle(v) THEN v
  ELSE IF v.has_media
    THEN [has_media |-> v.has_media, downloaded |-> v.downloaded]
    ELSE [has_media |-> v.has_media]
\* state_item["message"] = message
SetMessage(v, id) ==
  [has_media |-> v.has_media, downloaded |-> v.downloaded, message |-> id]
\* chat_state[message_id]["downloaded"] = True
\* mutant: the record is left as it is
SetDownloadedNot(v) == v

SetDownloaded(v) == [v EXCEPT !.downloaded = TRUE]

EmptyDict == [c \in {} |-> <<>>]

\* ------------------------------------------------------ write_state_to_file
\* mutant: the handles are left in the records
KeepHandles(cs) == cs

\* The chat's records with every live handle removed.
StripHandles(cs) ==
  [i \in 1..Len(cs) |-> [key |-> cs[i].key, value |-> DelMessage(cs[i].value)]]

\* json.dump(state): the snapshot holds what the dict holds
Dump(st) == [kind |-> "ledger", data |-> st]

\* write_state_to_file(state, user_id): the dict as the call leaves it (the
\* chat registered, its handles deleted in place) and the file it writes.
write_state_to_file(st, u) ==
  LET st1 == IF u \in DOMAIN st THEN st ELSE (u :> <<>>) @@ st
      st2 == [st1 EXCEPT ![u] = StripHandles(st1[u])]
  IN  [state |-> st2, disk |-> Dump(st2)]

\* ------------------------------------------------------ read_state_from_file
\* os.path.isfile('./state.json') and json.load: raised is a JSONDecodeError
read_state_from_file(d) ==
  IF d.kind = "absent" THEN [raised |-> FALSE, state |-> EmptyDict]
  ELSE IF d.kind = "corrupt" THEN [raised |-> TRUE, state |-> EmptyDict]
  ELSE [raised |-> FALSE, state |-> d.data]

\* --------------------------------------------------------------- get_last_id
\* mutant: the downloaded flag is not looked at
PendingAnyMedia(v) == v.has_media

\* value["has_media"] and not value["downloaded"]
Pending(v) == v.has_media /\ ~v.downloaded

\* get_last_id(state, user_id): the id returned and the dict as the call
\* leaves it.  The loop returns at the first pending record, else the last key.
get_last_id(st, u) ==
  IF u \in DOMAIN st
    THEN LET cs == st[u]
             hits == {i \in 1..Len(cs) : Pending(cs[i].value)}
             first == CHOOSE i \in hits : \A j \in hits : i <= j
         IN  [id |-> IF hits # {} THEN ToInt(cs[first].key)
                     ELSE IF Len(cs) > 0 THEN ToInt(cs[Len(cs)].key)
                     ELSE 0,
              state |-> st]
    ELSE [id |-> 0, state |-> (u :> <<>>) @@ st]

\* ------------------------------------------------------------- get_file_path
\* "image" in mime
Contains(mime, word) == \E i \in 1..Len(mime) : mime[i] = word

media_type(mime) ==
  IF Contains(mime, "image") THEN "images"
  ELSE IF Contains(mime, "video") THEN "videos"
  ELSE "other"

\* "{} - {}".format(message.id, message.date.strftime(...)), or the file's name
file_name(m, id) ==
  IF m.name # None THEN m.name ELSE <<ToString(id), "-", "date">>

\* pathlib.Path("media", media_type, "{}{}".format(file_name, ext)), and with
\* number > 0 "{} - {}{}".format(file_name, number, ext)
Path(dir, fname, number, ext) ==
  [dir |-> dir,
   name |-> IF number = 0 THEN fname ELSE fname \o <<"-", ToString(number)>>,
   ext |-> ext]

\* mutant: `if` for `while`: the number is incremented once
EnumerateOnce(dir, fname, ext, number, fs) ==
  IF Path(dir, fname, number, ext) \in fs
    THEN Path(dir, fname, number + 1, ext)
    ELSE Path(dir, fname, number, ext)

RECURSIVE Enumerate(_, _, _, _, _)
\* the while loop: number is incremented until the path is no file
Enumerate(dir, fname, ext, number, fs) ==
  IF Path(dir, fname, number, ext) \in fs
    THEN Enumerate(dir, fname, ext, number + 1, fs)
    ELSE Path(dir, fname, number, ext)

\* get_file_path(message) with fs the files that exist at the call
get_file_path(m, id, fs) ==
  Enumerate(media_type(m.mime), file_name(m, id), m.ext, 0, fs)

\* --------------------------------------------------------- download_messages
\* What client.download_media does with one request is the environment's
\* choice: "ok" writes the file and returns its path, "nofile" returns the
\* path without a file being there, "none" returns None, "raise" raises, and
\* "unresolved" is a download that has not ended when asyncio.gather hands the
\* exception of another request to the run.
Outcomes == {"ok", "nofile", "none", "raise", "unresolved"}
FaultKinds == Outcomes \ {"ok"}

\* the value download_media hands to asyncio.gather
Result(path, o) ==
  [is_none |-> o \notin {"ok", "nofile"}, path |-> path]

\* mutant: is_dir() for is_file(): no downloaded file is a directory
ConfirmedIsDir(result, fs) == ~result.is_none /\ result.path \in {}

\* mutant: the result is not examined
ConfirmedAlways(result, fs) == TRUE

\* file_paths[count] is not None, and pathlib.Path(file_path).is_file()
Confirmed(result, fs) == ~result.is_none /\ result.path \in fs

\* Of each request the result names the message, the path it was given, its
\* outcome and whether the path was a file when the results were examined.
\* download_messages(client, download_queue, chat_state) with hist the chat's
\* messages, fs the files that exist at the call and out the outcome of each
\* request.  Every path is resolved while the list of coroutines is built,
\* before asyncio.gather starts the first download.  gather re-raises the
\* first exception of a task: then no record is updated, and the downloads
\* that have not ended stay unresolved while the run goes on to its end.
\* x["message"] of a queued record without a handle raises a KeyError.
download_messages(hist, queue, cs, fs, out) ==
  LET n == Len(queue)
      keyerror == \E i \in 1..n : ~HasHandle(Get(cs, queue[i]))
      messages == [i \in 1..n |-> Get(cs, queue[i]).message]
      paths == [i \in 1..n |->
                  get_file_path(hist[messages[i]], messages[i], fs)]
      fs2 == fs \cup {paths[i] : i \in {j \in 1..n : out[j] = "ok"}}
      file_paths == [i \in 1..n |-> Result(paths[i], out[i])]
      done == {Str(messages[i]) :
                 i \in {j \in 1..n : Confirmed(file_paths[j], fs2)}}
      cs2 == [j \in 1..Len(cs) |->
                IF cs[j].key \in done
                  THEN [key |-> cs[j].key, value |-> SetDownloaded(cs[j].value)]
                  ELSE cs[j]]
      issued == [i \in 1..n |->
                   [id |-> messages[i], path |-> paths[i], out |-> out[i],
                    exists |-> paths[i] \in fs2]]
  IN  IF keyerror
        THEN [raised |-> "KeyError", chat_state |-> cs, files |-> fs,
              requests |-> <<>>]
      ELSE IF \E i \in 1..n : out[i] = "raise"
        THEN [raised |-> "download_media", chat_state |-> cs, files |-> fs2,
              requests |-> issued]
      ELSE [raised |-> "none", chat_state |-> cs2, files |-> fs2,
            requests |-> issued]

RECURSIVE SubsetsUpTo(_, _)
\* the subsets of S with at most r elements
SubsetsUpTo(S, r) ==
  IF r = 0 THEN {{}}
  ELSE LET P == SubsetsUpTo(S, r - 1)
       IN  P \cup {p \cup {x} : p \in P, x \in S}

\* the outcomes of n requests of which at most r are faults; a download is
\* left unresolved only by the exception of another
OutcomeChoices(n, r) ==
  {out \in UNION {{[i \in 1..n |-> IF i \in F THEN f[i] ELSE "ok"] :
                     f \in [F -> FaultKinds]} : F \in SubsetsUpTo(1..n, r)} :
     (\E i \in 1..n : out[i] = "unresolved") =>
        (\E i \in 1..n : out[i] = "raise")}

\* the number of faults among the outcomes
FaultsIn(out) == Cardinality({i \in DOMAIN out : out[i] # "ok"})

\* ------------------------------------------------------------------- run
\* mutant: reverse=True is left out: newest first
iter_messages_newest_first(hist, min_id) ==
  LET n == Cardinality({i \in 1..Len(hist) : i > min_id})
  IN  [k \in 1..n |-> Len(hist) + 1 - k]

\* client.iter_messages(entity=chat, reverse=True, min_id=last_id): the ids
\* of the messages newer than min_id, oldest first (min_id itself is excluded)
iter_messages(hist, min_id) ==
  SelectSeq([i \in 1..Len(hist) |-> i], LAMBDA i : i > min_id)

\* mutant: every message is taken to carry a file
HasFileAlways(m) == TRUE

\* message.media is not None and message.file is not None
HasFile(m) == m.media /\ m.file

\* state_item["has_media"] and not state_item["downloaded"]
\* mutant: every media record met again is queued
ShouldRetryMedia(v) == v.has_media

ShouldRetry(v) == v.has_media /\ ~v.downloaded

\* mutant: the threshold of the comments, "more than 10 items"
ThresholdTen(queue) == Len(queue) >= 10

\* len(download_queue) >= 20
Threshold(queue) == Len(queue) >= BatchSize

\* The body of `async for message in messages` up to the threshold test, for
\* the message id: the chat's records and the queue as it leaves them.  The
\* queue holds the dicts that are the values of chat_state: their keys here.
Classify(hist, cs, queue, id) ==
  LET message_id == Str(id)
  IN  IF message_id \notin Keys(cs)
        THEN IF HasFile(hist[id])
               THEN [chat_state |->
                       Put(cs, message_id, [has_media |-> TRUE,
                                            downloaded |-> FALSE,
                                            message |-> id]),
                     queue |-> Append(queue, message_id)]
               ELSE [chat_state |-> Put(cs, message_id, [has_media |-> FALSE]),
                     queue |-> queue]
      ELSE IF ShouldRetry(Get(cs, message_id))
        THEN [chat_state |->
                Put(cs, message_id, SetMessage(Get(cs, message_id), id)),
              queue |-> Append(queue, message_id)]
      ELSE [chat_state |-> cs, queue |-> queue]

\* the chat's records in a state.json
ChatOf(d) ==
  IF d.kind = "ledger" /\ user_id \in DOMAIN d.data
    THEN d.data[user_id] ELSE <<>>

\* every queued item is a record of the chat that is media, not downloaded
\* and holds its live handle: what line 100 reads of the queue
WellFormed(cs, queue) ==
  \A i \in 1..Len(queue) :
     /\ queue[i] \in Keys(cs)
     /\ Get(cs, queue[i]).has_media
     /\ ~Get(cs, queue[i]).downloaded
     /\ HasHandle(Get(cs, queue[i]))

\* the messages a request of reqs wrote the file of whose record in the
\* state.json d is not downloaded
Behind(reqs, d) ==
  {reqs[i].id : i \in {j \in 1..Len(reqs) :
      /\ reqs[j].out = "ok"
      /\ \/ Str(reqs[j].id) \notin Keys(ChatOf(d))
         \/ ~Get(ChatOf(d), Str(reqs[j].id)).downloaded}}

\* what is known of a batch when asyncio.gather has returned: where it was
\* started, its size, whether its queue was well formed, and how many files
\* this run had written by then that state.json did not record
Batch(kind, cs, queue, reqs, d) ==
  [kind |-> kind, size |-> Len(queue), wellformed |-> WellFormed(cs, queue),
   behind |-> Cardinality(Behind(reqs, d))]

VARIABLES
  history,         \* the chat's messages, message i has id i
  budget,          \* the faults the environment may inject in this behaviour
  faults,          \* the faults injected so far
  disk,            \* state.json
  files,           \* the paths under media/ that are files
  run,             \* the number of the current run of the program
  pc,              \* where the current run is
  state,           \* run's dict state
  last_id,         \* run's last_id
  messages,        \* the ids the iterator has yet to deliver
  download_queue,  \* run's download_queue
  exc,             \* the exception that is propagating, or "none"
  loaded,          \* state.json as this run read it
  requests,        \* the download requests this run has issued
  seen,            \* the ids this run's loop has classified
  enqueued,        \* the ids this run has appended to the queue
  stream_saves,    \* the saves this run made in the loop
  final_saves,     \* the saves this run made in the finally block
  batches,         \* the batches this run has downloaded
  prev             \* how the previous run ended, and whether all its
                   \* download requests wrote their file

vars == <<history, budget, faults, disk, files, run, pc, state, last_id,
          messages, download_queue, exc, loaded, requests, seen, enqueued,
          stream_saves, final_saves, batches, prev>>

Absent == [kind |-> "absent", data |-> EmptyDict]
Corrupt == [kind |-> "corrupt", data |-> EmptyDict]

Init ==
  /\ history \in SmallHistories \cup BatchHistories
  /\ budget = IF Len(history) > MaxMsg THEN MaxBatchFaults ELSE MaxFaults
  /\ faults = 0
  /\ disk \in {Absent, Corrupt}
  /\ files = {}
  /\ run = 1
  /\ pc = "load"
  /\ state = EmptyDict
  /\ last_id = 0
  /\ messages = <<>>
  /\ download_queue = <<>>
  /\ exc = "none"
  /\ loaded = Absent
  /\ requests = <<>>
  /\ seen = {}
  /\ enqueued = <<>>
  /\ stream_saves = 0
  /\ final_saves = 0
  /\ batches = <<>>
  /\ prev = [pc |-> "none", allok |-> TRUE]

\* mutant: read_state_from_file is called inside the try block
OnLoadErrorInTry == "final"

\* where a run goes when read_state_from_file raises: the call is outside the
\* try block, so the finally block does not run
OnLoadError == "aborted"

\* state = await read_state_from_file()
Load ==
  /\ pc = "load"
  /\ LET r == read_state_from_file(disk)
     IN  /\ pc' = IF r.raised THEN OnLoadError ELSE "entity"
         /\ state' = r.state
         /\ exc' = IF r.raised THEN "JSONDecodeError" ELSE "none"
  /\ loaded' = disk
  /\ UNCHANGED <<history, budget, faults, disk, files, run, last_id, messages,
                 download_queue, requests, seen, enqueued, stream_saves,
                 final_saves, batches, prev>>

\* chat = await client.get_entity(user_id), which may raise
GetEntity ==
  /\ pc = "entity"
  /\ \/ /\ pc' = "cursor"
        /\ UNCHANGED <<faults, exc>>
     \/ /\ faults < budget
        /\ faults' = faults + 1
        /\ exc' = "get_entity"
        /\ pc' = "final"
  /\ UNCHANGED <<history, budget, disk, files, run, state, last_id, messages,
                 download_queue, loaded, requests, seen, enqueued,
                 stream_saves, final_saves, batches, prev>>

\* last_id = await get_last_id(state, user_id); messages = iter_messages(...);
\* chat_state = state[user_id]; download_queue = []
GetLastId ==
  /\ pc = "cursor"
  /\ LET r == get_last_id(state, user_id)
     IN  /\ last_id' = r.id
         /\ state' = r.state
         /\ messages' = iter_messages(history, r.id)
  /\ download_queue' = <<>>
  /\ pc' = "stream"
  /\ UNCHANGED <<history, budget, faults, disk, files, run, exc, loaded,
                 requests, seen, enqueued, stream_saves, final_saves,
                 batches, prev>>

\* One iteration of `async for message in messages`: the next message is
\* classified, and when the queue has reached the threshold the batch is
\* downloaded, the ledger written and the queue cleared.  An exception of the
\* download leaves the loop for the finally block.
Step ==
  /\ pc = "stream"
  /\ messages # <<>>
  /\ LET id == Head(messages)
         c == Classify(history, state[user_id], download_queue, id)
     IN  /\ messages' = Tail(messages)
         /\ seen' = seen \cup {id}
         /\ enqueued' = IF Len(c.queue) > Len(download_queue)
                          THEN Append(enqueued, id) ELSE enqueued
         /\ IF Threshold(c.queue)
              THEN \E out \in OutcomeChoices(Len(c.queue), budget - faults) :
                     LET d == download_messages(history, c.queue,
                                                c.chat_state, files, out)
                         st == [state EXCEPT ![user_id] = d.chat_state]
                         w == write_state_to_file(st, user_id)
                     IN  /\ faults' = faults + FaultsIn(out)
                         /\ files' = d.files
                         /\ requests' = requests \o d.requests
                         /\ batches' =
                              Append(batches,
                                     Batch("flush", c.chat_state, c.queue,
                                           requests \o d.requests, disk))
                         /\ IF d.raised # "none"
                              THEN /\ state' = st
                                   /\ download_queue' = c.queue
                                   /\ exc' = d.raised
                                   /\ pc' = "final"
                                   /\ UNCHANGED <<disk, stream_saves>>
                              ELSE /\ state' = w.state
                                   /\ disk' = w.disk
                                   /\ stream_saves' = stream_saves + 1
                                   /\ download_queue' = <<>>
                                   /\ UNCHANGED <<exc, pc>>
              ELSE /\ state' = [state EXCEPT ![user_id] = c.chat_state]
                   /\ download_queue' = c.queue
                   /\ UNCHANGED <<faults, files, requests, disk, stream_saves,
                                  batches, exc, pc>>
  /\ UNCHANGED <<history, budget, run, last_id, loaded, final_saves, prev>>

\* the iterator raises while it fetches the next messages
IterRaise ==
  /\ pc = "stream"
  /\ faults < budget
  /\ faults' = faults + 1
  /\ exc' = "iter_messages"
  /\ pc' = "final"
  /\ UNCHANGED <<history, budget, disk, files, run, state, last_id, messages,
                 download_queue, loaded, requests, seen, enqueued,
                 stream_saves, final_saves, batches, prev>>

\* mutant: the leftover queue is downloaded only when it holds an item
LeftoverNonEmpty(queue) == Len(queue) > 0

\* len(download_queue) >= 0 after the loop
Leftover(queue) == Len(queue) >= 0

\* The history is exhausted: the leftover queue is downloaded.
Drain ==
  /\ pc = "stream"
  /\ messages = <<>>
  /\ IF Leftover(download_queue)
       THEN \E out \in OutcomeChoices(Len(download_queue), budget - faults) :
              LET d == download_messages(history, download_queue,
                                         state[user_id], files, out)
              IN  /\ faults' = faults + FaultsIn(out)
                  /\ files' = d.files
                  /\ requests' = requests \o d.requests
                  /\ batches' =
                       Append(batches,
                              Batch("drain", state[user_id], download_queue,
                                    requests \o d.requests, disk))
                  /\ state' = [state EXCEPT ![user_id] = d.chat_state]
                  /\ exc' = d.raised
       ELSE UNCHANGED <<faults, files, requests, batches, state, exc>>
  /\ pc' = "final"
  /\ UNCHANGED <<history, budget, disk, run, last_id, messages,
                 download_queue, loaded, seen, enqueued, stream_saves,
                 final_saves, prev>>

\* mutant: the save follows the try block without a finally
SavesUnlessRaised(raised) == ~raised

\* `finally:` runs its block however the try block was left
SavesOnExit(raised) == TRUE

\* finally: await write_state_to_file(state, user_id); then run returns, or
\* the exception goes on to the caller
FinalSave ==
  /\ pc = "final"
  /\ LET w == write_state_to_file(state, user_id)
     IN  IF SavesOnExit(exc # "none")
           THEN /\ state' = w.state
                /\ disk' = w.disk
                /\ final_saves' = final_saves + 1
           ELSE UNCHANGED <<state, disk, final_saves>>
  /\ pc' = IF exc # "none" THEN "failed" ELSE "done"
  /\ UNCHANGED <<history, budget, faults, files, run, last_id, messages,
                 download_queue, exc, loaded, requests, seen, enqueued,
                 stream_saves, batches, prev>>

Ended == pc \in {"done", "failed", "aborted"}

\* The program is started again: nothing of the process is left but
\* state.json and the files under media/.
Restart ==
  /\ Ended
  /\ run < MaxRuns
  /\ run' = run + 1
  /\ pc' = "load"
  /\ prev' = [pc |-> pc,
               allok |-> \A i \in 1..Len(requests) :
                            requests[i].out = "ok" /\ requests[i].exists]
  /\ state' = EmptyDict
  /\ last_id' = 0
  /\ messages' = <<>>
  /\ download_queue' = <<>>
  /\ exc' = "none"
  /\ loaded' = Absent
  /\ requests' = <<>>
  /\ seen' = {}
  /\ enqueued' = <<>>
  /\ stream_saves' = 0
  /\ final_saves' = 0
  /\ batches' = <<>>
  /\ UNCHANGED <<history, budget, faults, disk, files>>

Next ==
  \/ Load
  \/ GetEntity
  \/ GetLastId
  \/ Step
  \/ IterRaise
  \/ Drain
  \/ FinalSave
  \/ Restart

Spec == Init /\ [][Next]_vars

\* ------------------------------------------------- get_file_path on its own
\* get_file_path(message) called for one media message against the files
\* that exist under media/, and the file of the returned path written, over
\* and over: the download of the same message by successive batches.
MediaKinds == {k \in Kinds : HasFile(k)}

\* the files a download of the kinds' messages may have left under media/
NamedFiles ==
  {Path(media_type(k.mime), file_name(k, 1), n, k.ext) :
     k \in MediaKinds, n \in 0..MaxNumber}

InitPath ==
  /\ history \in {<<k>> : k \in MediaKinds}
  /\ files \in SUBSET NamedFiles
  /\ budget = 0
  /\ faults = 0
  /\ disk = Absent
  /\ run = 1
  /\ pc = "path"
  /\ state = EmptyDict
  /\ last_id = 0
  /\ messages = <<>>
  /\ download_queue = <<>>
  /\ exc = "none"
  /\ loaded = Absent
  /\ requests = <<>>
  /\ seen = {}
  /\ enqueued = <<>>
  /\ stream_saves = 0
  /\ final_saves = 0
  /\ batches = <<>>
  /\ prev = [pc |-> "none", allok |-> TRUE]

\* await get_file_path(message): the path is computed from the files that
\* exist now
ResolvePath ==
  /\ pc = "path"
  /\ Len(requests) <= MaxNumber
  /\ requests' = Append(requests,
                        [id |-> 1,
                         path |-> get_file_path(history[1], 1, files),
                         out |-> "ok", exists |-> FALSE])
  /\ pc' = "write"
  /\ UNCHANGED <<history, budget, faults, disk, files, run, state, last_id,
                 messages, download_queue, exc, loaded, seen, enqueued,
                 stream_saves, final_saves, batches, prev>>

\* client.download_media(message, path) writes the file of the path
WriteFile ==
  /\ pc = "write"
  /\ files' = files \cup {requests[Len(requests)].path}
  /\ pc' = "path"
  /\ UNCHANGED <<history, budget, faults, disk, run, state, last_id,
                 messages, download_queue, exc, loaded, requests, seen,
                 enqueued, stream_saves, final_saves, batches, prev>>

NextPath ==
  \/ ResolvePath
  \/ WriteFile

SpecPath == InitPath /\ [][NextPath]_vars

\* ============================================================== the claims
\* the messages of the history that carry a downloadable file
MediaIds == {i \in 1..Len(history) : HasFile(history[i])}
\* the messages this run has issued a download request for
RequestedIds == {requests[i].id : i \in 1..Len(requests)}
EnqueuedIds == {enqueued[i] : i \in 1..Len(enqueued)}
\* the media records of the ledger cs that are not downloaded
PendingIn(cs) ==
  {ToInt(cs[i].key) : i \in {j \in 1..Len(cs) : Pending(cs[j].value)}}
\* cs has a media record of every media message, downloaded for a prefix of
\* them in id order and not downloaded for the rest
PrefixDownloaded(cs) ==
  /\ \A m \in MediaIds : Str(m) \in Keys(cs) /\ Get(cs, Str(m)).has_media
  /\ \A m1, m2 \in MediaIds :
       (m1 < m2 /\ Get(cs, Str(m2)).downloaded) => Get(cs, Str(m1)).downloaded

\* C1: a run that loads a ledger marking the first K of the N media messages
\* downloaded and the other N-K not downloaded, and runs to its end, has
\* enqueued and requested exactly those N-K messages, each once.
C1_ResumeExact ==
  (pc = "done" /\ PrefixDownloaded(ChatOf(loaded))) =>
     /\ RequestedIds = PendingIn(ChatOf(loaded))
     /\ EnqueuedIds = PendingIn(ChatOf(loaded))
     /\ Len(requests) = Cardinality(PendingIn(ChatOf(loaded)))

\* C2 as stated: a run that follows a completed run and completes issues no
\* download request and leaves state.json as the first run saved it.
C2_IdempotentAlways ==
  (run > 1 /\ prev.pc = "done" /\ pc = "done") =>
     requests = <<>> /\ disk = loaded

\* C2 as amended: a run that follows a completed run all of whose download
\* requests wrote their file, and completes, issues no download request and
\* leaves state.json as the first run saved it.
C2_IdempotentAfterSuccess ==
  (run > 1 /\ prev.pc = "done" /\ prev.allok /\ pc = "done") =>
     requests = <<>> /\ disk = loaded

\* C2's case: a second run has completed after a first run that downloaded
\* a file and failed no download.
C2_Witness ==
  /\ run > 1 /\ prev.pc = "done" /\ prev.allok /\ pc = "done"
  /\ files # {}
  /\ \E i \in 1..Len(ChatOf(disk)) : ChatOf(disk)[i].value.has_media

\* C3 as stated: a run that enqueued M messages and raised no error saved the
\* ledger ceil(M / 20) times in the loop and once at its end.
C3_SavesCeil ==
  pc = "done" =>
     /\ stream_saves = (Len(enqueued) + BatchSize - 1) \div BatchSize
     /\ final_saves = 1

\* C3 as amended: a run that enqueued M messages and raised no error saved the
\* ledger floor(M / 20) times in the loop and once at its end.
C3_SavesFloor ==
  pc = "done" =>
     /\ stream_saves = Len(enqueued) \div BatchSize
     /\ final_saves = 1

\* C3's case: a run has completed that enqueued more than a batch, and not a
\* whole number of batches.
C3_Witness ==
  /\ pc = "done"
  /\ Len(enqueued) > BatchSize
  /\ Len(enqueued) % BatchSize # 0
  /\ stream_saves = 1

\* C4: the download requests of a run are given pairwise distinct paths.
C4_DistinctPaths ==
  \A i, j \in 1..Len(requests) :
     i # j => requests[i].path # requests[j].path

\* C5: a run that loaded the ledger and has ended, with or without an
\* exception, made exactly one final save, and state.json holds the dict as
\* the run left it, with a record of every message the loop classified.
C5_FinalSave ==
  pc \in {"done", "failed"} =>
     /\ final_saves = 1
     /\ disk = Dump(state)
     /\ user_id \in DOMAIN state
     /\ \A id \in seen : Str(id) \in Keys(ChatOf(disk))
     /\ \A i \in 1..Len(requests) :
          Get(state[user_id], Str(requests[i].id)) =
            Get(ChatOf(disk), Str(requests[i].id))

\* C5's case: a run has ended with the exception of a batch download, after
\* its loop had registered messages.
C5_Witness ==
  /\ pc = "failed"
  /\ exc = "download_media"
  /\ seen # {}
  /\ final_saves = 1

\* C6: the record of a message a download was requested for is downloaded
\* exactly if that request returned a path and the path was a file.
C6_MarkedIffConfirmed ==
  \A i \in 1..Len(requests) :
     LET r == requests[i]
         v == Get(state[user_id], Str(r.id))
     IN  /\ v.has_media
         /\ v.downloaded <=> (r.out \in {"ok", "nofile"} /\ r.exists)

HandleFree(v) ==
  DOMAIN v = IF v.has_media THEN {"has_media", "downloaded"}
             ELSE {"has_media"}

\* C7: no record of a written state.json holds the live handle: a record
\* holds has_media and, for a media message, downloaded.
C7_NoHandleOnDisk ==
  disk.kind = "ledger" =>
     \A c \in DOMAIN disk.data :
        \A i \in 1..Len(disk.data[c]) : HandleFree(disk.data[c][i].value)

\* C7's case: the ledger was saved while messages with a live handle were
\* queued.
C7_Witness ==
  /\ final_saves = 1
  /\ download_queue # <<>>
  /\ \E i \in 1..Len(ChatOf(disk)) : ChatOf(disk)[i].value.has_media

\* C8: a run that read a state.json it could not parse is aborted, and has
\* saved nothing, requested no download and left state.json as it was.
C8_CorruptLoadWritesNothing ==
  (loaded.kind = "corrupt" /\ pc # "load") =>
     /\ pc = "aborted"
     /\ exc = "JSONDecodeError"
     /\ disk = loaded
     /\ final_saves = 0 /\ stream_saves = 0
     /\ requests = <<>>
     /\ files = {}

\* C8's case: the second run too has failed to load the ledger.
C8_Witness ==
  run > 1 /\ pc = "aborted" /\ loaded.kind = "corrupt"

\* C9: a download that raises or returns None does not fail the run: no
\* exception of a download propagates, the item's record stays not
\* downloaded, and the record of every request that wrote its file is
\* downloaded.
C9_ItemFailureSwallowed ==
  /\ exc # "download_media"
  /\ \A i \in 1..Len(requests) :
       LET v == Get(state[user_id], Str(requests[i].id))
       IN  /\ requests[i].out \in {"raise", "none"} => ~v.downloaded
           /\ requests[i].out = "ok" => v.downloaded

\* C10: a run that follows a run that saved the ledger, and completes, has
\* enqueued and requested every media message the loaded ledger records as
\* not downloaded.
C10_RetriedNextRun ==
  (run > 1 /\ prev.pc \in {"done", "failed"} /\ pc = "done") =>
     /\ PendingIn(ChatOf(loaded)) \subseteq EnqueuedIds
     /\ PendingIn(ChatOf(loaded)) \subseteq RequestedIds

\* the media-less records of the ledger cs
NonMediaIn(cs) ==
  {ToInt(cs[i].key) : i \in {j \in 1..Len(cs) : ~cs[j].value.has_media}}

\* message id of the history carries a file to download
Downloadable(id) == history[id].media /\ history[id].file

\* C11 as amended: a message without a downloadable file is recorded with
\* has_media=false alone; the record stays so in memory and in state.json for
\* the rest of the run and in every later run, and the message is never
\* enqueued and never requested.
C11_NonMediaSkipped ==
  /\ \A id \in seen :
       ~Downloadable(id) =>
          Get(state[user_id], Str(id)) = [has_media |-> FALSE]
  /\ \A id \in NonMediaIn(ChatOf(loaded)) :
       /\ Str(id) \in Keys(ChatOf(disk))
       /\ Get(ChatOf(disk), Str(id)) = [has_media |-> FALSE]
       /\ id \notin EnqueuedIds \cup RequestedIds
  /\ \A id \in EnqueuedIds \cup RequestedIds : Downloadable(id)

\* C11 as stated: besides, a later run never fetches the message again from
\* the history.
C11_NonMediaNeverFetched ==
  /\ C11_NonMediaSkipped
  /\ \A id \in NonMediaIn(ChatOf(loaded)) : id \notin seen

\* C11's case: a later run has completed that found a media-less record in
\* the ledger and was delivered its message again.
C11_Witness ==
  /\ run > 1 /\ pc = "done"
  /\ \E id \in NonMediaIn(ChatOf(loaded)) : id \in seen

\* C12: a first run from no ledger, all of whose downloads wrote their file,
\* ends with one record per message in state.json, downloaded for the media
\* messages and has_media=false for the others, and one file per media message.
C12_CompleteFirstRun ==
  (/\ run = 1 /\ pc = "done" /\ loaded.kind = "absent"
   /\ \A i \in 1..Len(requests) : requests[i].out = "ok") =>
     /\ Len(ChatOf(disk)) = Len(history)
     /\ \A id \in 1..Len(history) :
          /\ Str(id) \in Keys(ChatOf(disk))
          /\ Get(ChatOf(disk), Str(id)) =
               IF HasFile(history[id])
                 THEN [has_media |-> TRUE, downloaded |-> TRUE]
                 ELSE [has_media |-> FALSE]
     /\ Cardinality(files) = Cardinality(MediaIds)

\* C14: right after get_last_id, last_id is 0 for a chat the ledger did not
\* hold (now registered with no records) and for a chat without records, else
\* the key of the first record in insertion order that is media and not
\* downloaded, else the key of the last record; a chat the ledger held is
\* left as it was.
C14_ResumePoint ==
  (pc = "stream" /\ seen = {}) =>
     IF user_id \notin DOMAIN loaded.data
       THEN /\ last_id = 0
            /\ DOMAIN state = DOMAIN loaded.data \cup {user_id}
            /\ state[user_id] = <<>>
       ELSE LET cs == loaded.data[user_id]
            IN  /\ state = loaded.data
                /\ Len(cs) = 0 => last_id = 0
                /\ \A i \in 1..Len(cs) :
                     (/\ cs[i].value.has_media
                      /\ ~cs[i].value.downloaded
                      /\ \A j \in 1..(i - 1) :
                           cs[j].value.has_media => cs[j].value.downloaded)
                       => last_id = ToInt(cs[i].key)
                /\ (/\ Len(cs) > 0
                    /\ \A j \in 1..Len(cs) :
                         cs[j].value.has_media => cs[j].value.downloaded)
                     => last_id = ToInt(cs[Len(cs)].key)

\* C14's case: get_last_id has returned the key of a record that is neither
\* the first nor the last of the chat.
C14_Witness ==
  /\ pc = "stream" /\ seen = {}
  /\ \E i \in 2..(Len(ChatOf(loaded)) - 1) :
       last_id = ToInt(ChatOf(loaded)[i].key)

\* every record of cs is in cs2 with the same has_media, is downloaded in cs2
\* if it was in cs, and became downloaded only with a request among reqs that
\* returned a path that was a file
Monotone(cs, cs2, reqs) ==
  \A i \in 1..Len(cs) :
     /\ cs[i].key \in Keys(cs2)
     /\ Get(cs2, cs[i].key).has_media = cs[i].value.has_media
     /\ cs[i].value.has_media =>
          /\ cs[i].value.downloaded => Get(cs2, cs[i].key).downloaded
          /\ (~cs[i].value.downloaded /\ Get(cs2, cs[i].key).downloaded) =>
               \E r \in 1..Len(reqs) :
                  /\ reqs[r].id = ToInt(cs[i].key)
                  /\ reqs[r].out \in {"ok", "nofile"}
                  /\ reqs[r].exists

\* the chat's records in the dict of the run
MemChat(st) == IF user_id \in DOMAIN st THEN st[user_id] ELSE <<>>

\* C16: no step deletes a record, changes its has_media or resets its
\* downloaded, in state.json over all runs and in memory within a run; a
\* record becomes downloaded only with a confirmed download of its message.
C16_Lifecycle ==
  [][/\ Monotone(ChatOf(disk), ChatOf(disk'), requests')
     /\ run' = run => Monotone(MemChat(state), MemChat(state'), requests')]_vars

\* C16's case: a record the run loaded as not downloaded is downloaded in
\* state.json.
C16_Witness ==
  /\ run > 1
  /\ \E id \in PendingIn(ChatOf(loaded)) :
       /\ Str(id) \in Keys(ChatOf(disk))
       /\ Get(ChatOf(disk), Str(id)).downloaded

\* the keys of cs denote strictly ascending ids
Ascending(cs) ==
  \A i, j \in 1..Len(cs) : i < j => ToInt(cs[i].key) < ToInt(cs[j].key)

\* C17: the records of the chat are in strictly ascending id order, in
\* memory and in state.json.
C17_KeyOrder ==
  Ascending(MemChat(state)) /\ Ascending(ChatOf(disk))

\* C17's case: a run that follows a failed run has added records to the
\* ledger it loaded.
C17_Witness ==
  /\ run > 1 /\ prev.pc = "failed" /\ pc \in {"done", "failed"}
  /\ Len(ChatOf(loaded)) > 0
  /\ Len(ChatOf(disk)) > Len(ChatOf(loaded))

\* the batches of the run that were started in the loop, and after it
FlushBatches == {i \in 1..Len(batches) : batches[i].kind = "flush"}
DrainBatches == {i \in 1..Len(batches) : batches[i].kind = "drain"}

\* C13: state.json is never more than one batch behind: the messages whose
\* download of this run wrote a file and whose record in state.json is not
\* downloaded are at most 20, at the return of every asyncio.gather and
\* between the steps of the run, and none after the final save of a run that
\* raised no error.
C13_OneBatchBehind ==
  /\ Cardinality(Behind(requests, disk)) <= BatchSize
  /\ \A i \in 1..Len(batches) : batches[i].behind <= BatchSize
  /\ pc = "done" => Behind(requests, disk) = {}

\* C13's case: a run without an error whose full batch had written 20 files
\* that state.json did not record yet has made its final save.
C13_Witness ==
  /\ pc = "done"
  /\ \E i \in FlushBatches : batches[i].behind = BatchSize
  /\ \E i \in DrainBatches : batches[i].behind > 0
  /\ Behind(requests, disk) = {}

\* C15: the batch boundary is a full join: no save of state.json is made
\* while a download of the current batch is unresolved.
C15_FullJoin ==
  \A i \in 1..Len(requests) :
     requests[i].out = "unresolved" => final_saves = 0

Candidate(m, id, n) ==
  [dir |-> media_type(m.mime),
   name |-> IF n = 0 THEN file_name(m, id)
            ELSE file_name(m, id) \o <<"-", ToString(n)>>,
   ext |-> m.ext]

\* C19: the path get_file_path returns is the plain candidate when that is
\* no file, and otherwise the numbered candidate of the smallest N >= 1
\* that is no file; the path is no file when it is returned, and the call
\* ends after at most as many increments as there are files.
C19_SmallestFree ==
  pc = "write" =>
    LET r == requests[Len(requests)]
        m == history[r.id]
    IN  /\ r.path \notin files
        /\ Candidate(m, r.id, 0) \notin files => r.path = Candidate(m, r.id, 0)
        /\ \E n \in 0..Cardinality(files) :
             /\ r.path = Candidate(m, r.id, n)
             /\ \A k \in 0..(n - 1) : Candidate(m, r.id, k) \in files

\* C19's case: the plain path and the path numbered 1 are files, and the
\* path returned is numbered 2 or more.
C19_Witness ==
  /\ pc = "write"
  /\ Candidate(history[1], 1, 0) \in files
  /\ Candidate(history[1], 1, 1) \in files
  /\ \E n \in 2..(MaxNumber + 1) :
       requests[Len(requests)].path = Candidate(history[1], 1, n)

\* no id occurs twice in the sequence q
NoDuplicates(q) == \A i, j \in 1..Len(q) : i # j => q[i] # q[j]

\* C20: at the start of every batch each queued item is a record of the chat
\* with has_media, not downloaded and holding its handle, so that reading
\* the handles raises no KeyError; the same holds of the queue in the loop;
\* and no id is queued or requested twice in a run.
C20_QueueWellFormed ==
  /\ \A i \in 1..Len(batches) : batches[i].wellformed
  /\ exc # "KeyError"
  /\ pc = "stream" => WellFormed(MemChat(state), download_queue)
  /\ NoDuplicates(enqueued)
  /\ NoDuplicates([i \in 1..Len(requests) |-> requests[i].id])

\* C20's case: the save that followed a full batch stripped the handles of
\* the records, and the batch after the loop was started with an item queued
\* since.
C20_Witness ==
  /\ stream_saves > 0
  /\ FlushBatches # {}
  /\ \E i \in DrainBatches : batches[i].size > 0 /\ batches[i].wellformed

====
